---- MODULE Spec2Model ----
(***************************************************************************)
(* Model of modules/video_output/splitter.c: the video splitter display.   *)
(*                                                                         *)
(* One display thread ("vout") runs vlc_vidsplit_Open, then render cycles  *)
(* (vlc_vidsplit_Prepare followed by vlc_vidsplit_Display), then           *)
(* vlc_vidsplit_Close.  Each part's window runs its callbacks (Resized,    *)
(* Closed, MouseEvent, KeyboardEvent) on its own context, one callback at  *)
(* a time per window.  A step is a lock operation together with the        *)
(* accesses that follow it up to the next lock operation or external call  *)
(* that another context can tell apart.                                    *)
(***************************************************************************)
EXTENDS Integers, Sequences, FiniteSets, TLC

\* ------------------------------------------------------------- bounds
\* splitter.i_output as reported by the splitter module
NumOutputs == 2
\* render cycles the display thread runs before it closes
MaxCycles == 2
\* window callbacks delivered in one run, over all windows
MaxEvents == 2

Parts == 0 .. (NumOutputs - 1)

\* execution contexts: the callback context of part r is r, the display
\* thread is Vout; NoOwner is the owner of an unlocked mutex
Vout == NumOutputs
NoOwner == NumOutputs + 1
Contexts == Parts \cup {Vout}

\* sizes the window provider reports to the resized callback (a part
\* starts at 1x1)
ResizeInputs == {<<2, 3>>}

VARIABLES
    pc,            \* position of the display thread
    vi,            \* its loop index i
    ret,           \* value vlc_vidsplit_Open returns ("none": not yet)
    v_display,     \* local `display` of vlc_vidsplit_Close / Open
    i_output,      \* sys->splitter.i_output
    sys_lock,      \* owner of sys->lock
    parts,         \* sys->parts[i]: window, display, lock, width, height
    pictures,      \* sys->pictures[i]: 0 is NULL, 1 a picture
    pic_refs,      \* references held on the picture produced for output i
    src_held,      \* the reference picture_Hold took on the source picture
    hpc,           \* position of each window's callback context
    h_display,     \* local `display` of vlc_vidsplit_window_Closed
    h_size,        \* width, height arguments of vlc_vidsplit_window_Resized
    h_remap,       \* result of video_splitter_Mouse in the running callback
    h_fwd,         \* events the running callback passed to vd->cfg->window
    engine,        \* the splitter module: "none", "loaded", "released"
    held,          \* contexts that waited on parts[i].lock and have not posted
    unguarded,     \* sites that accessed parts[i].display without the lock
    n_events,      \* callbacks delivered so far
    n_cycles,      \* render cycles started so far
    cycle,         \* outcome of video_splitter_Filter in the current cycle
    cyc_log,       \* lock operations and display calls of the current cycle
    win_created, win_deleted,     \* per part: windows created / deleted
    disp_created, disp_deleted,   \* per part: displays created / deleted
    disp_size,     \* size last given to the display of part i
    engine_released, \* calls of module_unneed
    fail_at,       \* index at which the loop of Open failed, -1 if none
    touched,       \* parts the loop of vlc_vidsplit_Close iterated over
    closed_done    \* windows whose Closed callback has returned

vars == <<pc, vi, ret, v_display, i_output, sys_lock, parts, pictures,
          pic_refs, src_held, hpc, h_display, h_size, h_remap, h_fwd,
          engine, held, unguarded, n_events, n_cycles, cycle, cyc_log,
          win_created, win_deleted, disp_created, disp_deleted, disp_size,
          engine_released, fail_at, touched, closed_done>>

\* groups of variables, for UNCHANGED
voutLocals == <<vi, ret, v_display>>
handlerVars == <<hpc, h_display, h_size, h_remap, h_fwd, n_events>>
pictureVars == <<pictures, pic_refs, src_held>>
cycleVars == <<n_cycles, cycle, cyc_log>>
resourceVars == <<win_created, win_deleted, disp_created, disp_deleted,
                  disp_size, engine, engine_released>>
openGhost == <<fail_at, touched, closed_done>>

\* ------------------------------------------------------ the semaphore
\* vlc_sem_t is a counting semaphore: wait blocks while the value is 0 and
\* decrements it, post increments it, whatever the value
SemCanWait(value) == value > 0

SemWait(value) == value - 1

SemPost(value) == value + 1

\* ----------------------------------------------------------- helpers
\* struct vlc_vidsplit_part before vlc_vidsplit_Open fills it
NoPart == [window |-> "none", display |-> 0, lock |-> 0,
           width |-> 0, height |-> 0]

\* context ctx passes vlc_sem_wait(&parts[i].lock)
Acquire(ctx, i) ==
    /\ SemCanWait(parts[i].lock)
    /\ held' = [held EXCEPT ![i] = @ \cup {ctx}]

\* context ctx calls vlc_sem_post(&parts[i].lock)
Release(ctx, i) == held' = [held EXCEPT ![i] = @ \ {ctx}]

\* context ctx reads or writes parts[i].display at `site`, the lock
\* holders being `holders`
Access(ctx, i, site, holders) ==
    unguarded' = IF ctx \in holders[i] THEN unguarded
                                       ELSE unguarded \cup {site}

\* the process is gone: no context takes another step
Crashed ==
    /\ pc' = "crashed"
    /\ hpc' = [r \in Parts |-> "crashed"]
    /\ UNCHANGED <<voutLocals, i_output, sys_lock, parts, pictureVars,
                   h_display, h_size, h_remap, h_fwd, n_events, held,
                   unguarded, n_cycles, cycle, resourceVars, openGhost>>

Log(op, i, d) == Append(cyc_log, <<op, i, d>>)

Init ==
    /\ pc = "open"
    /\ vi = 0
    /\ ret = "none"
    /\ v_display = 0
    /\ i_output = 0
    /\ sys_lock = NoOwner
    /\ parts = [i \in Parts |-> NoPart]
    /\ pictures = [i \in Parts |-> 0]
    /\ pic_refs = [i \in Parts |-> 0]
    /\ src_held = FALSE
    /\ hpc = [r \in Parts |-> "idle"]
    /\ h_display = [r \in Parts |-> 0]
    /\ h_size = [r \in Parts |-> <<0, 0>>]
    /\ h_remap = [r \in Parts |-> "none"]
    /\ h_fwd = [r \in Parts |-> 0]
    /\ engine = "none"
    /\ held = [i \in Parts |-> {}]
    /\ unguarded = {}
    /\ n_events = 0
    /\ n_cycles = 0
    /\ cycle = "none"
    /\ cyc_log = <<>>
    /\ win_created = [i \in Parts |-> 0]
    /\ win_deleted = [i \in Parts |-> 0]
    /\ disp_created = [i \in Parts |-> 0]
    /\ disp_deleted = [i \in Parts |-> 0]
    /\ disp_size = [i \in Parts |-> <<0, 0>>]
    /\ engine_released = 0
    /\ fail_at = -1
    /\ touched = {}
    /\ closed_done = {}

\* ------------------------------------------------- vlc_vidsplit_Close
\* `for (int i = 0; i < n; i++)` of vlc_vidsplit_Close: where to go for i
CloseLoop(i, n) == IF i < n THEN "close_wait" ELSE "close_engine"

\* vlc_sem_wait(&part->lock); display = part->display
Close_Take ==
    /\ pc = "close_wait"
    /\ Acquire(Vout, vi)
    /\ Access(Vout, vi, "Close", held')
    /\ parts' = [parts EXCEPT ![vi].lock = SemWait(@)]
    /\ v_display' = parts[vi].display
    /\ touched' = touched \cup {vi}
    /\ pc' = "close_clear"
    /\ UNCHANGED <<vi, ret, i_output, sys_lock, pictureVars, handlerVars,
                   cycleVars, resourceVars, fail_at, closed_done>>

\* part->display = NULL; vlc_sem_post(&part->lock)
Close_Clear ==
    /\ pc = "close_clear"
    /\ Access(Vout, vi, "Close", held)
    /\ Release(Vout, vi)
    /\ parts' = [parts EXCEPT ![vi].display = 0, ![vi].lock = SemPost(@)]
    /\ pc' = "close_delete"
    /\ UNCHANGED <<voutLocals, i_output, sys_lock, pictureVars, handlerVars,
                   cycleVars, resourceVars, openGhost>>

\* if (display != NULL) vout_display_Delete(display)
Close_Delete ==
    /\ pc = "close_delete"
    /\ disp_deleted' = [disp_deleted EXCEPT
                          ![vi] = IF v_display # 0 THEN @ + 1 ELSE @]
    /\ v_display' = 0
    /\ pc' = "close_window"
    /\ UNCHANGED <<vi, ret, i_output, sys_lock, parts, pictureVars,
                   handlerVars, held, unguarded, cycleVars, win_created,
                   win_deleted, disp_created, disp_size, engine,
                   engine_released, openGhost>>

\* vlc_window_Disable(part->window); vlc_window_Delete(part->window)
Close_Window ==
    /\ pc = "close_window"
    /\ parts' = [parts EXCEPT ![vi].window = "deleted"]
    /\ win_deleted' = [win_deleted EXCEPT ![vi] = @ + 1]
    /\ vi' = vi + 1
    /\ pc' = CloseLoop(vi + 1, i_output)
    /\ UNCHANGED <<ret, v_display, i_output, sys_lock, pictureVars,
                   handlerVars, held, unguarded, cycleVars, win_created,
                   disp_created, disp_deleted, disp_size, engine,
                   engine_released, openGhost>>

\* module_unneed, video_format_Clean, vlc_object_delete
Close_Engine ==
    /\ pc = "close_engine"
    /\ engine' = "released"
    /\ engine_released' = engine_released + 1
    /\ vi' = 0
    /\ pc' = "done"
    /\ UNCHANGED <<ret, v_display, i_output, sys_lock, parts, pictureVars,
                   handlerVars, held, unguarded, cycleVars, win_created,
                   win_deleted, disp_created, disp_deleted, disp_size,
                   openGhost>>

\* the display thread calls vlc_vidsplit_Close between two render cycles
Close_Begin ==
    /\ pc = "idle"
    /\ vi' = 0
    /\ pc' = CloseLoop(0, i_output)
    /\ cycle' = "none"
    /\ cyc_log' = <<>>
    /\ UNCHANGED <<ret, v_display, i_output, sys_lock, parts, pictureVars,
                   handlerVars, held, unguarded, n_cycles, resourceVars,
                   openGhost>>

\* -------------------------------------------------- vlc_vidsplit_Open
\* variant of OpenLoop: leaves the loop one part early
OpenLoop_StopsEarly(i, n) == IF i + 1 < n THEN "open_window" ELSE "open_ok"

\* `for (int i = 0; i < splitter->i_output; i++)` of vlc_vidsplit_Open
OpenLoop(i, n) == IF i < n THEN "open_window" ELSE "open_ok"

\* variant of RollbackCount: truncates one part too far
RollbackCount_OffByOne(i) == i + 1

\* `splitter->i_output = i` before the rollback call of vlc_vidsplit_Close
RollbackCount(i) == i

\* Open gives up at part k: truncate i_output and run vlc_vidsplit_Close
OpenRollback(k, code) ==
    /\ i_output' = RollbackCount(k)
    /\ ret' = code
    /\ vi' = 0
    /\ pc' = CloseLoop(0, RollbackCount(k))

\* from the entry of vlc_vidsplit_Open to the result of module_need
Open_Start ==
    /\ pc = "open"
    /\ \E outcome \in {"windowed", "no_name", "no_sys", "no_module", "ok"} :
          \/ /\ outcome \in {"windowed", "no_name", "no_module"}
             /\ ret' = "VLC_EGENERIC"
             /\ pc' = "done"
             /\ UNCHANGED <<engine, i_output>>
          \/ /\ outcome = "no_sys"
             /\ ret' = "VLC_ENOMEM"
             /\ pc' = "done"
             /\ UNCHANGED <<engine, i_output>>
          \/ /\ outcome = "ok"
             /\ engine' = "loaded"
             /\ i_output' = NumOutputs
             /\ pc' = "open_alloc"
             /\ UNCHANGED ret
    /\ UNCHANGED <<vi, v_display, sys_lock, parts, pictureVars, handlerVars,
                   held, unguarded, cycleVars, win_created, win_deleted,
                   disp_created, disp_deleted, disp_size, engine_released,
                   openGhost>>

\* vlc_obj_malloc of sys->pictures and sys->parts
Open_Alloc ==
    /\ pc = "open_alloc"
    /\ \E ok \in BOOLEAN :
          \/ /\ ok
             /\ vi' = 0
             /\ pc' = OpenLoop(0, i_output)
             /\ UNCHANGED <<ret, i_output>>
          \/ /\ ~ok
             /\ i_output' = 0
             /\ ret' = "VLC_ENOMEM"
             /\ vi' = 0
             /\ pc' = CloseLoop(0, 0)
    /\ UNCHANGED <<v_display, sys_lock, parts, pictureVars, handlerVars, held,
                   unguarded, cycleVars, resourceVars, openGhost>>

\* vlc_sem_init(&part->lock, 1); part->display = NULL; width = height = 1;
\* part->window = video_splitter_CreateWindow(...): vlc_window_New may
\* fail, and vlc_window_Enable may fail, after which the window is deleted
Open_Window ==
    /\ pc = "open_window"
    /\ Access(Vout, vi, "Open_Init", held)
    /\ \E res \in {"ok", "new_failed", "enable_failed"} :
          LET init == [window |-> "none", display |-> 0, lock |-> 1,
                       width |-> 1, height |-> 1] IN
          \/ /\ res = "ok"
             /\ parts' = [parts EXCEPT ![vi] = [init EXCEPT
                                                 !.window = "enabled"]]
             /\ win_created' = [win_created EXCEPT ![vi] = @ + 1]
             /\ pc' = "open_wait"
             /\ UNCHANGED <<vi, ret, i_output, win_deleted, fail_at>>
          \/ /\ res = "new_failed"
             /\ parts' = [parts EXCEPT ![vi] = init]
             /\ OpenRollback(vi, "VLC_EGENERIC")
             /\ fail_at' = vi
             /\ UNCHANGED <<win_created, win_deleted>>
          \/ /\ res = "enable_failed"
             /\ parts' = [parts EXCEPT ![vi] = init]
             /\ win_created' = [win_created EXCEPT ![vi] = @ + 1]
             /\ win_deleted' = [win_deleted EXCEPT ![vi] = @ + 1]
             /\ OpenRollback(vi, "VLC_EGENERIC")
             /\ fail_at' = vi
    /\ UNCHANGED <<v_display, sys_lock, pictureVars, handlerVars, held,
                   cycleVars, disp_created, disp_deleted, disp_size, engine,
                   engine_released, touched, closed_done>>

\* variant of SnapshotSize: the size the part was initialised with
SnapshotSize_Default(part) == <<1, 1>>

\* vdcfg.display.width = part->width; vdcfg.display.height = part->height
SnapshotSize(part) == <<part.width, part.height>>

\* vlc_sem_wait(&part->lock); vdcfg.display.width/height =
\* part->width/height; vout_display_New(...)
Open_New ==
    /\ pc = "open_wait"
    /\ Acquire(Vout, vi)
    /\ parts' = [parts EXCEPT ![vi].lock = SemWait(@)]
    /\ \E ok \in BOOLEAN :
          \/ /\ ok
             /\ v_display' = 1
             /\ disp_created' = [disp_created EXCEPT ![vi] = @ + 1]
             /\ disp_size' = [disp_size EXCEPT
                                ![vi] = SnapshotSize(parts[vi])]
             /\ pc' = "open_store"
          \/ /\ ~ok
             /\ v_display' = 0
             /\ pc' = "open_fail_post"
             /\ UNCHANGED <<disp_created, disp_size>>
    /\ UNCHANGED <<vi, ret, i_output, sys_lock, pictureVars, handlerVars,
                   unguarded, cycleVars, win_created, win_deleted,
                   disp_deleted, engine, engine_released, openGhost>>

\* part->display = display; vlc_sem_post(&part->lock); next iteration
Open_Store ==
    /\ pc = "open_store"
    /\ Access(Vout, vi, "Open_Store", held)
    /\ Release(Vout, vi)
    /\ parts' = [parts EXCEPT ![vi].display = v_display,
                              ![vi].lock = SemPost(@)]
    /\ v_display' = 0
    /\ vi' = vi + 1
    /\ pc' = OpenLoop(vi + 1, i_output)
    /\ UNCHANGED <<ret, i_output, sys_lock, pictureVars, handlerVars,
                   cycleVars, resourceVars, openGhost>>

\* display == NULL: vlc_sem_post(&part->lock)
Open_FailPost ==
    /\ pc = "open_fail_post"
    /\ Release(Vout, vi)
    /\ parts' = [parts EXCEPT ![vi].lock = SemPost(@)]
    /\ pc' = "open_fail_window"
    /\ UNCHANGED <<voutLocals, i_output, sys_lock, pictureVars, handlerVars,
                   unguarded, cycleVars, resourceVars, openGhost>>

\* vlc_window_Disable, vlc_window_Delete, i_output = i, vlc_vidsplit_Close
Open_FailWindow ==
    /\ pc = "open_fail_window"
    /\ parts' = [parts EXCEPT ![vi].window = "deleted"]
    /\ win_deleted' = [win_deleted EXCEPT ![vi] = @ + 1]
    /\ OpenRollback(vi, "VLC_EGENERIC")
    /\ fail_at' = vi
    /\ UNCHANGED <<v_display, sys_lock, pictureVars, handlerVars, held,
                   unguarded, cycleVars, win_created, disp_created,
                   disp_deleted, disp_size, engine, engine_released, touched,
                   closed_done>>

\* vd->ops = &ops; return VLC_SUCCESS
Open_Ok ==
    /\ pc = "open_ok"
    /\ ret' = "VLC_SUCCESS"
    /\ vi' = 0
    /\ pc' = "idle"
    /\ UNCHANGED <<v_display, i_output, sys_lock, parts, pictureVars,
                   handlerVars, held, unguarded, cycleVars, resourceVars,
                   openGhost>>

\* ----------------------------------------------- vlc_vidsplit_Prepare
\* `for (int i = 0; i < sys->splitter.i_output; i++)` of Prepare; after
\* the last part Prepare returns and vlc_vidsplit_Display is called
PrepareLoop(i, n) == IF i < n THEN "prep_wait" ELSE "disp_pic"

\* `for (int i = 0; i < sys->splitter.i_output; i++)` of Display
DisplayLoop(i, n) == IF i < n THEN "disp_pic" ELSE "idle"

\* the loop index after iteration i of a loop that the next loop follows
NextIndex(i, n) == IF i + 1 < n THEN i + 1 ELSE 0

\* what vout_display_Prepare(display, picture) may return: a display hands
\* back the picture or its conversion; on a NULL display anything
PrepareResults(d, picture) == IF d # 0 THEN {picture} ELSE {0, picture}

\* variant of Prepare_Lock: the filter is reached without sys->lock
Prepare_Lock_Skipped ==
    /\ pc = "idle"
    /\ n_cycles < MaxCycles
    /\ src_held' = TRUE
    /\ n_cycles' = n_cycles + 1
    /\ cycle' = "none"
    /\ cyc_log' = <<>>
    /\ pc' = "prep_filter"
    /\ UNCHANGED <<voutLocals, i_output, sys_lock, parts, pictures, pic_refs,
                   handlerVars, held, unguarded, resourceVars, openGhost>>

\* picture_Hold(pic); vlc_mutex_lock(&sys->lock)
Prepare_Lock ==
    /\ pc = "idle"
    /\ n_cycles < MaxCycles
    /\ sys_lock = NoOwner
    /\ sys_lock' = Vout
    /\ src_held' = TRUE
    /\ n_cycles' = n_cycles + 1
    /\ cycle' = "none"
    /\ cyc_log' = <<>>
    /\ pc' = "prep_filter"
    /\ UNCHANGED <<voutLocals, i_output, parts, pictures, pic_refs,
                   handlerVars, held, unguarded, resourceVars, openGhost>>

\* video_splitter_Filter(&sys->splitter, sys->pictures, pic): it consumes
\* the source picture and, when it succeeds, fills every output
Prepare_Filter ==
    /\ pc = "prep_filter"
    /\ src_held' = FALSE
    /\ \E ok \in BOOLEAN :
          \/ /\ ok
             /\ pictures' = [i \in Parts |-> IF i < i_output THEN 1 ELSE 0]
             /\ pic_refs' = [i \in Parts |-> IF i < i_output THEN 1 ELSE 0]
             /\ cycle' = "ok"
             /\ pc' = "prep_unlock"
          \/ /\ ~ok
             /\ cycle' = "failed"
             /\ pc' = "prep_fail_unlock"
             /\ UNCHANGED <<pictures, pic_refs>>
    /\ UNCHANGED <<voutLocals, i_output, sys_lock, parts, handlerVars, held,
                   unguarded, n_cycles, cyc_log, resourceVars, openGhost>>

\* the filter failed: vlc_mutex_unlock(&sys->lock)
Prepare_FailUnlock ==
    /\ pc = "prep_fail_unlock"
    /\ sys_lock' = NoOwner
    /\ pc' = "prep_fail_clear"
    /\ UNCHANGED <<voutLocals, i_output, parts, pictureVars, handlerVars,
                   held, unguarded, cycleVars, resourceVars, openGhost>>

\* variant of Prepare_FailClear: returns without clearing the slots
Prepare_FailClear_NoClear ==
    /\ pc = "prep_fail_clear"
    /\ vi' = 0
    /\ pc' = DisplayLoop(0, i_output)
    /\ UNCHANGED <<ret, v_display, i_output, sys_lock, parts, pictureVars,
                   handlerVars, held, unguarded, cycleVars, resourceVars,
                   openGhost>>

\* sys->pictures[i] = NULL for every i; return.  Display is called next.
Prepare_FailClear ==
    /\ pc = "prep_fail_clear"
    /\ pictures' = [i \in Parts |-> IF i < i_output THEN 0 ELSE pictures[i]]
    /\ vi' = 0
    /\ pc' = DisplayLoop(0, i_output)
    /\ UNCHANGED <<ret, v_display, i_output, sys_lock, parts, pic_refs,
                   src_held, handlerVars, held, unguarded, cycleVars,
                   resourceVars, openGhost>>

\* variant of Prepare_Unlock: goes on to the semaphores with sys->lock held
Prepare_Unlock_Skipped ==
    /\ pc = "prep_unlock"
    /\ vi' = 0
    /\ pc' = PrepareLoop(0, i_output)
    /\ UNCHANGED <<ret, v_display, i_output, sys_lock, parts, pictureVars,
                   handlerVars, held, unguarded, cycleVars, resourceVars,
                   openGhost>>

\* the filter succeeded: vlc_mutex_unlock(&sys->lock)
Prepare_Unlock ==
    /\ pc = "prep_unlock"
    /\ sys_lock' = NoOwner
    /\ vi' = 0
    /\ pc' = PrepareLoop(0, i_output)
    /\ UNCHANGED <<ret, v_display, i_output, parts, pictureVars, handlerVars,
                   held, unguarded, cycleVars, resourceVars, openGhost>>

\* vlc_sem_wait(&part->lock); sys->pictures[i] = vout_display_Prepare(
\* part->display, sys->pictures[i], NULL, date); next iteration
Prepare_Part ==
    /\ pc = "prep_wait"
    /\ Acquire(Vout, vi)
    /\ Access(Vout, vi, "Prepare", held')
    /\ parts' = [parts EXCEPT ![vi].lock = SemWait(@)]
    /\ cyc_log' = Append(Log("acq", vi, 0), <<"prepare", vi, parts[vi].display>>)
    /\ \E res \in PrepareResults(parts[vi].display, pictures[vi]) :
          pictures' = [pictures EXCEPT ![vi] = res]
    /\ vi' = NextIndex(vi, i_output)
    /\ pc' = PrepareLoop(vi + 1, i_output)
    /\ UNCHANGED <<ret, v_display, i_output, sys_lock, pic_refs, src_held,
                   handlerVars, n_cycles, cycle, resourceVars, openGhost>>

\* vout_display_Prepare on a NULL display dereferences it: the process
\* may die there
Prepare_Crash ==
    /\ pc = "prep_wait"
    /\ SemCanWait(parts[vi].lock)
    /\ parts[vi].display = 0
    /\ cyc_log' = Append(Log("acq", vi, 0), <<"prepare", vi, 0>>)
    /\ Crashed

\* ----------------------------------------------- vlc_vidsplit_Display
\* if (sys->pictures[i] != NULL) { vout_display_Display(part->display,
\* sys->pictures[i]); picture_Release(sys->pictures[i]); }
\* vlc_sem_post(&part->lock); next iteration
Display_Part ==
    /\ pc = "disp_pic"
    /\ \/ /\ pictures[vi] # 0
          /\ Access(Vout, vi, "Display", held)
          /\ cyc_log' = Append(Log("present", vi, parts[vi].display),
                               <<"rel", vi, 0>>)
          /\ pic_refs' = [pic_refs EXCEPT ![vi] = IF @ > 0 THEN @ - 1 ELSE 0]
       \/ /\ pictures[vi] = 0
          /\ cyc_log' = Log("rel", vi, 0)
          /\ UNCHANGED <<pic_refs, unguarded>>
    /\ Release(Vout, vi)
    /\ parts' = [parts EXCEPT ![vi].lock = SemPost(@)]
    /\ vi' = NextIndex(vi, i_output)
    /\ pc' = DisplayLoop(vi + 1, i_output)
    /\ UNCHANGED <<ret, v_display, i_output, sys_lock, pictures, src_held,
                   handlerVars, n_cycles, cycle, resourceVars, openGhost>>

\* vout_display_Display on a NULL display dereferences it
Display_Crash ==
    /\ pc = "disp_pic"
    /\ pictures[vi] # 0
    /\ parts[vi].display = 0
    /\ cyc_log' = Log("present", vi, 0)
    /\ Crashed

\* ----------------------------------------------- the window callbacks
\* the window of part r calls one of its callbacks: it is enabled, and its
\* previous callback has returned
CanDeliver(r) ==
    /\ hpc[r] = "idle"
    /\ parts[r].window = "enabled"
    /\ n_events < MaxEvents

Deliver(r, first) ==
    /\ hpc' = [hpc EXCEPT ![r] = first]
    /\ n_events' = n_events + 1

\* the callback of window r returns
Return(r) ==
    /\ hpc' = [hpc EXCEPT ![r] = "idle"]
    /\ h_display' = [h_display EXCEPT ![r] = 0]
    /\ h_size' = [h_size EXCEPT ![r] = <<0, 0>>]
    /\ h_remap' = [h_remap EXCEPT ![r] = "none"]
    /\ h_fwd' = [h_fwd EXCEPT ![r] = 0]

\* ---- vlc_vidsplit_window_Resized
Resized_Begin(r) ==
    /\ CanDeliver(r)
    /\ Deliver(r, "rs_wait")
    /\ \E size \in ResizeInputs : h_size' = [h_size EXCEPT ![r] = size]
    /\ UNCHANGED <<pc, voutLocals, i_output, sys_lock, parts, pictureVars,
                   h_display, h_remap, h_fwd, held, unguarded, cycleVars,
                   resourceVars, openGhost>>

\* vlc_sem_wait(&part->lock); part->width = width; part->height = height;
\* if (part->display != NULL) vout_display_SetSize(part->display, w, h)
Resized_Apply(r) ==
    /\ hpc[r] = "rs_wait"
    /\ Acquire(r, r)
    /\ Access(r, r, "Resized", held')
    /\ parts' = [parts EXCEPT ![r].lock = SemWait(@),
                              ![r].width = h_size[r][1],
                              ![r].height = h_size[r][2]]
    /\ disp_size' = [disp_size EXCEPT
                       ![r] = IF parts[r].display # 0 THEN h_size[r] ELSE @]
    /\ hpc' = [hpc EXCEPT ![r] = "rs_post"]
    /\ UNCHANGED <<pc, voutLocals, i_output, sys_lock, pictureVars,
                   h_display, h_size, h_remap, h_fwd, n_events, cycleVars,
                   win_created, win_deleted, disp_created, disp_deleted,
                   engine, engine_released, openGhost>>

\* if (cb != NULL) cb(wnd, width, height, opaque); vlc_sem_post; return
Resized_Post(r) ==
    /\ hpc[r] = "rs_post"
    /\ Release(r, r)
    /\ parts' = [parts EXCEPT ![r].lock = SemPost(@)]
    /\ Return(r)
    /\ UNCHANGED <<pc, voutLocals, i_output, sys_lock, pictureVars, n_events,
                   unguarded, cycleVars, resourceVars, openGhost>>

\* ---- vlc_vidsplit_window_Closed
Closed_Begin(r) ==
    /\ CanDeliver(r)
    /\ Deliver(r, "cl_wait")
    /\ UNCHANGED <<pc, voutLocals, i_output, sys_lock, parts, pictureVars,
                   h_display, h_size, h_remap, h_fwd, held, unguarded,
                   cycleVars, resourceVars, openGhost>>

\* variant of Closed_Take: part->display is read without vlc_sem_wait
Closed_Take_NoWait(r) ==
    /\ hpc[r] = "cl_wait"
    /\ Access(r, r, "Closed", held)
    /\ h_display' = [h_display EXCEPT ![r] = parts[r].display]
    /\ hpc' = [hpc EXCEPT ![r] = "cl_clear"]
    /\ UNCHANGED <<pc, voutLocals, i_output, sys_lock, parts, pictureVars,
                   h_size, h_remap, h_fwd, n_events, held, cycleVars,
                   resourceVars, openGhost>>

\* vlc_sem_wait(&part->lock); display = part->display
Closed_Take(r) ==
    /\ hpc[r] = "cl_wait"
    /\ Acquire(r, r)
    /\ Access(r, r, "Closed", held')
    /\ parts' = [parts EXCEPT ![r].lock = SemWait(@)]
    /\ h_display' = [h_display EXCEPT ![r] = parts[r].display]
    /\ hpc' = [hpc EXCEPT ![r] = "cl_clear"]
    /\ UNCHANGED <<pc, voutLocals, i_output, sys_lock, pictureVars, h_size,
                   h_remap, h_fwd, n_events, cycleVars, resourceVars,
                   openGhost>>

\* variant of Closed_Clear: goes on to the delete without the post
Closed_Clear_NoPost(r) ==
    /\ hpc[r] = "cl_clear"
    /\ Access(r, r, "Closed", held)
    /\ parts' = [parts EXCEPT ![r].display = 0]
    /\ hpc' = [hpc EXCEPT ![r] = "cl_delete"]
    /\ UNCHANGED <<pc, voutLocals, i_output, sys_lock, pictureVars,
                   h_display, h_size, h_remap, h_fwd, n_events, held,
                   cycleVars, resourceVars, openGhost>>

\* part->display = NULL; vlc_sem_post(&part->lock)
Closed_Clear(r) ==
    /\ hpc[r] = "cl_clear"
    /\ Access(r, r, "Closed", held)
    /\ Release(r, r)
    /\ parts' = [parts EXCEPT ![r].display = 0, ![r].lock = SemPost(@)]
    /\ hpc' = [hpc EXCEPT ![r] = "cl_delete"]
    /\ UNCHANGED <<pc, voutLocals, i_output, sys_lock, pictureVars,
                   h_display, h_size, h_remap, h_fwd, n_events, cycleVars,
                   resourceVars, openGhost>>

\* if (display != NULL) vout_display_Delete(display); return
Closed_Delete(r) ==
    /\ hpc[r] = "cl_delete"
    /\ disp_deleted' = [disp_deleted EXCEPT
                          ![r] = IF h_display[r] # 0 THEN @ + 1 ELSE @]
    /\ closed_done' = closed_done \cup {r}
    /\ Return(r)
    /\ UNCHANGED <<pc, voutLocals, i_output, sys_lock, parts, pictureVars,
                   n_events, held, unguarded, cycleVars, win_created,
                   win_deleted, disp_created, disp_size, engine,
                   engine_released, fail_at, touched>>

\* ---- vlc_vidsplit_window_MouseEvent
\* variant of MouseForward: the result of the remap is ignored
MouseForward_Always(res) == TRUE

\* `if (video_splitter_Mouse(...) == VLC_SUCCESS)`: whether the event is sent
MouseForward(res) == res = "VLC_SUCCESS"

Mouse_Begin(r) ==
    /\ CanDeliver(r)
    /\ Deliver(r, "ms_lock")
    /\ UNCHANGED <<pc, voutLocals, i_output, sys_lock, parts, pictureVars,
                   h_display, h_size, h_remap, h_fwd, held, unguarded,
                   cycleVars, resourceVars, openGhost>>

\* vlc_mutex_lock(&sys->lock);
\* if (video_splitter_Mouse(&sys->splitter, part - sys->parts, &ev)
\*     == VLC_SUCCESS) vlc_window_SendMouseEvent(vd->cfg->window, &ev)
Mouse_Remap(r) ==
    /\ hpc[r] = "ms_lock"
    /\ sys_lock = NoOwner
    /\ sys_lock' = r
    /\ \E res \in {"VLC_SUCCESS", "VLC_EGENERIC"} :
          /\ h_remap' = [h_remap EXCEPT ![r] = res]
          /\ h_fwd' = [h_fwd EXCEPT
                         ![r] = IF MouseForward(res) THEN @ + 1 ELSE @]
    /\ hpc' = [hpc EXCEPT ![r] = "ms_unlock"]
    /\ UNCHANGED <<pc, voutLocals, i_output, parts, pictureVars, h_display,
                   h_size, n_events, held, unguarded, cycleVars,
                   resourceVars, openGhost>>

\* vlc_mutex_unlock(&sys->lock); return
Mouse_Unlock(r) ==
    /\ hpc[r] = "ms_unlock"
    /\ sys_lock' = NoOwner
    /\ Return(r)
    /\ UNCHANGED <<pc, voutLocals, i_output, parts, pictureVars, n_events,
                   held, unguarded, cycleVars, resourceVars, openGhost>>

\* ---- vlc_vidsplit_window_KeyboardEvent
Key_Begin(r) ==
    /\ CanDeliver(r)
    /\ Deliver(r, "kb_lock")
    /\ UNCHANGED <<pc, voutLocals, i_output, sys_lock, parts, pictureVars,
                   h_display, h_size, h_remap, h_fwd, held, unguarded,
                   cycleVars, resourceVars, openGhost>>

\* variant of Key_Report: reports the key without taking sys->lock
Key_Report_NoLock(r) ==
    /\ hpc[r] = "kb_lock"
    /\ h_fwd' = [h_fwd EXCEPT ![r] = @ + 1]
    /\ hpc' = [hpc EXCEPT ![r] = "kb_unlock"]
    /\ UNCHANGED <<pc, voutLocals, i_output, sys_lock, parts, pictureVars,
                   h_display, h_size, h_remap, n_events, held, unguarded,
                   cycleVars, resourceVars, openGhost>>

\* vlc_mutex_lock(&sys->lock);
\* vlc_window_ReportKeyPress(vd->cfg->window, key)
Key_Report(r) ==
    /\ hpc[r] = "kb_lock"
    /\ sys_lock = NoOwner
    /\ sys_lock' = r
    /\ h_fwd' = [h_fwd EXCEPT ![r] = @ + 1]
    /\ hpc' = [hpc EXCEPT ![r] = "kb_unlock"]
    /\ UNCHANGED <<pc, voutLocals, i_output, parts, pictureVars, h_display,
                   h_size, h_remap, n_events, held, unguarded, cycleVars,
                   resourceVars, openGhost>>

\* vlc_mutex_unlock(&sys->lock); return
Key_Unlock(r) ==
    /\ hpc[r] = "kb_unlock"
    /\ sys_lock' = NoOwner
    /\ Return(r)
    /\ UNCHANGED <<pc, voutLocals, i_output, parts, pictureVars, n_events,
                   held, unguarded, cycleVars, resourceVars, openGhost>>

\* ------------------------------------------------------ specification
VoutStep ==
    \/ Open_Start \/ Open_Alloc \/ Open_Window \/ Open_New \/ Open_Store
    \/ Open_FailPost \/ Open_FailWindow \/ Open_Ok
    \/ Prepare_Lock \/ Prepare_Filter \/ Prepare_FailUnlock
    \/ Prepare_FailClear \/ Prepare_Unlock \/ Prepare_Part \/ Prepare_Crash
    \/ Display_Part \/ Display_Crash
    \/ Close_Begin \/ Close_Take \/ Close_Clear \/ Close_Delete
    \/ Close_Window \/ Close_Engine

WindowStep(r) ==
    \/ Resized_Begin(r) \/ Resized_Apply(r) \/ Resized_Post(r)
    \/ Closed_Begin(r) \/ Closed_Take(r) \/ Closed_Clear(r)
    \/ Closed_Delete(r)
    \/ Mouse_Begin(r) \/ Mouse_Remap(r) \/ Mouse_Unlock(r)
    \/ Key_Begin(r) \/ Key_Report(r) \/ Key_Unlock(r)

Next == VoutStep \/ \E r \in Parts : WindowStep(r)

Spec == Init /\ [][Next]_vars

\* a step of the display thread inside vlc_vidsplit_Open, a render cycle or
\* vlc_vidsplit_Close: an operation that was entered goes on, and Display
\* follows Prepare
VoutRunning == VoutStep /\ pc # "idle"

\* a step of a window callback that has been entered
HandlerRunning(r) == WindowStep(r) /\ hpc[r] # "idle"

\* every thread inside an operation or a callback keeps running, and a
\* thread at vlc_sem_wait or vlc_mutex_lock gets the guard if it is free
\* again and again
FairSpec ==
    /\ Spec
    /\ SF_vars(VoutRunning)
    /\ \A r \in Parts : SF_vars(HandlerRunning(r))

\* ------------------------------------------------------------- claims
\* positions of the display thread inside a render cycle, between the
\* return of video_splitter_Filter and the last vlc_sem_post of Display
InCycle == pc \in {"prep_wait", "disp_pic"}

\* the entries of the cycle's record whose operation is op
Entries(op) == SelectSeq(cyc_log, LAMBDA e : e[1] = op)

\* the part indexes of a sequence of entries
Indexes(entries) == [k \in 1 .. Len(entries) |-> entries[k][2]]

\* 0, 1, ..., n-1 as a sequence
UpTo(n) == [k \in 1 .. n |-> k - 1]

\* C1: in a render cycle whose filter failed, neither phase acquires or
\* releases a part's lock and no display gets a prepare or display call:
\* the record of the cycle stays empty.
C1_FailedCycleIsNoOp == cycle = "failed" => cyc_log = <<>>

\* C2: the lock of a part is binary: its value never exceeds 1 and at most
\* one context is between its wait and its post.
C2_GuardBinary ==
    \A i \in Parts : parts[i].lock <= 1 /\ Cardinality(held[i]) <= 1

\* C3: when a cycle whose filter succeeded has ended, the locks were
\* acquired once each in index order and released once each in index
\* order, no prepare or acquisition follows a display call, and every
\* display that got a prepare got exactly one prepare and exactly one
\* display call.
C3_SuccessfulCycleOrder ==
    (pc = "idle" /\ cycle = "ok") =>
        /\ Indexes(Entries("acq")) = UpTo(i_output)
        /\ Indexes(Entries("rel")) = UpTo(i_output)
        /\ \A j, k \in 1 .. Len(cyc_log) :
              (cyc_log[j][1] = "present" /\ cyc_log[k][1] \in {"acq", "prepare"})
                  => k < j
        /\ \A i \in Parts :
              (\E k \in 1 .. Len(cyc_log) :
                  cyc_log[k] = <<"prepare", i, 1>>) =>
                 /\ Len(SelectSeq(cyc_log,
                        LAMBDA e : e[1] = "prepare" /\ e[2] = i)) = 1
                 /\ Len(SelectSeq(cyc_log,
                        LAMBDA e : e = <<"present", i, 1>>)) = 1

\* C4: the resized callback of part r never stores the new size or resizes
\* the display while the display thread holds the lock of part r between
\* its wait in Prepare and its post in Display.
C4_ResizeNotInterleaved ==
    [][\A r \in Parts :
          (hpc[r] = "rs_wait" /\ hpc'[r] = "rs_post")
              => ~(InCycle /\ Vout \in held[r])]_vars

\* C5: no prepare or display call is made for a part whose display is
\* NULL, and when a successful cycle has ended every picture reference
\* has been released.
C5_NoCallOnEmptyRenderer ==
    /\ \A k \in 1 .. Len(cyc_log) :
          cyc_log[k][1] \in {"prepare", "present"} => cyc_log[k][3] # 0
    /\ (pc = "idle" /\ cycle = "ok") => \A i \in Parts : pic_refs[i] = 0

\* C6: every display is deleted at most once, and once teardown has
\* completed and no callback is running every display created has been
\* deleted exactly once.
C6_DestroyedOnce ==
    /\ \A i \in Parts : disp_deleted[i] <= disp_created[i]
    /\ (pc = "done" /\ \A r \in Parts : hpc[r] = "idle") =>
          \A i \in Parts : disp_deleted[i] = disp_created[i]

\* displays a closed callback has taken from its part and not yet deleted
Taken(r) == IF hpc[r] \in {"cl_clear", "cl_delete"} /\ h_display[r] # 0
            THEN 1 ELSE 0

\* C7: when the loop of Open fails at part k, teardown iterates over the
\* parts below k only; no window, display or module is released more often
\* than it was created; and when Open has returned, teardown has iterated
\* over exactly the parts below k, every window created is deleted, every
\* display created is deleted or in the hands of a closed callback about
\* to delete it, and the module is released exactly once.
C7_RollbackExact ==
    fail_at # -1 =>
        /\ touched \subseteq 0 .. (fail_at - 1)
        /\ engine_released <= 1
        /\ \A i \in Parts :
              /\ win_deleted[i] <= win_created[i] /\ win_created[i] <= 1
              /\ disp_deleted[i] + Taken(i) <= disp_created[i]
              /\ disp_created[i] <= 1
        /\ pc = "done" =>
              /\ touched = 0 .. (fail_at - 1)
              /\ engine_released = 1
              /\ \A i \in Parts :
                    /\ win_deleted[i] = win_created[i]
                    /\ disp_deleted[i] + Taken(i) = disp_created[i]

\* Open failed at part 1 on vout_display_New: the window of part 1 and both
\* the window and the display of part 0 are gone
C7_Witness ==
    /\ pc = "done"
    /\ fail_at = 1
    /\ win_created[1] = 1 /\ win_deleted[1] = 1 /\ disp_created[1] = 0
    /\ win_deleted[0] = 1 /\ disp_deleted[0] = 1
    /\ touched = {0}

\* C8 as stated: no access to parts[i].display is made by a context that
\* is not between its wait and its post on parts[i].lock.
C8_AllAccessGuarded == unguarded = {}

\* C8 amended: the only access to parts[i].display outside the lock is the
\* `part->display = NULL` of Open, before the window of the part exists.
C8_AccessGuardedAfterInit == unguarded \subseteq {"Open_Init"}

\* a run that opened, rendered, got a callback, closed and deleted a display
C8_Witness ==
    /\ pc = "done"
    /\ ret = "VLC_SUCCESS"
    /\ n_cycles > 0
    /\ n_events > 0
    /\ \E i \in Parts : disp_deleted[i] = 1
    /\ unguarded = {"Open_Init"}

\* C9 as stated: the splitter and sys->pictures are accessed only by the
\* owner of sys->lock: the display thread owns it whenever its next step
\* calls the filter, clears, stores into or reads sys->pictures.
C9_SlotsUnderGlobalGuard ==
    /\ pc \in {"prep_filter", "prep_fail_clear", "prep_wait", "disp_pic"}
          => sys_lock = Vout
    /\ \A r \in Parts : hpc[r] = "ms_unlock" => sys_lock = r

\* C9 amended: the splitter is called (filter, mouse remap) only by the
\* owner of sys->lock.
C9_EngineUnderGlobalGuard ==
    /\ pc = "prep_filter" => sys_lock = Vout
    /\ \A r \in Parts : hpc[r] = "ms_unlock" => sys_lock = r

\* the display thread is about to call the filter while a mouse callback
\* waits for sys->lock
C9_Witness ==
    /\ pc = "prep_filter"
    /\ sys_lock = Vout
    /\ \E r \in Parts : hpc[r] = "ms_lock"

\* C10: a mouse callback has passed its event on exactly when the remap
\* succeeded, a keyboard callback always has, both do so owning sys->lock,
\* and a callback that has returned does not own sys->lock.
C10_InputForwarding ==
    \A r \in Parts :
        /\ hpc[r] = "ms_unlock" =>
              /\ sys_lock = r
              /\ h_fwd[r] = (IF h_remap[r] = "VLC_SUCCESS" THEN 1 ELSE 0)
        /\ hpc[r] = "kb_unlock" => (sys_lock = r /\ h_fwd[r] = 1)
        /\ hpc[r] = "idle" => (sys_lock # r /\ h_fwd[r] = 0)

\* a mouse callback whose remap failed is about to unlock, nothing sent
C10_Witness ==
    \E r \in Parts :
        /\ hpc[r] = "ms_unlock"
        /\ h_remap[r] = "VLC_EGENERIC"
        /\ h_fwd[r] = 0
        /\ sys_lock = r

\* C11: vlc_vidsplit_Open is all-or-nothing. It returns VLC_SUCCESS only
\* with all NumOutputs >= 1 parts built, each with a window and a display
\* that was non-null when it was stored; when it returns an error, every
\* window and display it created has been destroyed again and no part
\* holds a display.
C11_OpenAllOrNothing ==
    /\ pc = "open_store" => v_display # 0
    /\ ret = "VLC_SUCCESS" =>
          /\ NumOutputs >= 1
          /\ i_output = NumOutputs
          /\ \A i \in Parts : /\ win_created[i] = 1
                              /\ disp_created[i] = 1
                              /\ parts[i].window # "none"
    /\ (pc = "done" /\ ret \in {"VLC_EGENERIC", "VLC_ENOMEM"}) =>
          \A i \in Parts : /\ parts[i].window # "enabled"
                           /\ parts[i].display = 0
                           /\ win_deleted[i] = win_created[i]
                           /\ disp_deleted[i] + Taken(i) >= disp_created[i]

\* Open has just returned VLC_SUCCESS: every part has its window enabled
\* and its display stored
C11_Witness ==
    /\ pc = "idle"
    /\ ret = "VLC_SUCCESS"
    /\ n_cycles = 0
    /\ \A i \in Parts : parts[i].window = "enabled" /\ parts[i].display = 1

\* C12: while the display thread holds the semaphore of part i between its
\* vlc_sem_wait in Prepare and its vlc_sem_post in Display, the display that
\* received vout_display_Prepare is still stored in the part, has not been
\* deleted, and no Resized callback is inside the guarded section of part i.
C12_RendererStableInCycle ==
    \A i \in Parts :
        (/\ InCycle
         /\ Vout \in held[i]
         /\ \E k \in 1 .. Len(cyc_log) : cyc_log[k] = <<"prepare", i, 1>>)
        => /\ parts[i].display = 1
           /\ disp_deleted[i] = 0
           /\ hpc[i] # "rs_post"

\* C13 (as stated): when the render cycle is over every sys->pictures[i] is
\* NULL, and no sys->pictures[i] refers to a picture whose reference has
\* been released.
C13_SlotsEmptyAfterCycle ==
    /\ pc = "idle" => \A i \in Parts : pictures[i] = 0
    /\ \A i \in Parts : pictures[i] # 0 => pic_refs[i] > 0

\* C13 (amended): a frame slot is read only while it is NULL or refers to
\* a picture whose reference is still held: this is so whenever Prepare is
\* about to pass sys->pictures[i] to vout_display_Prepare and whenever
\* Display is about to test and present it.
C13_NoStaleSlotRead ==
    (pc \in {"prep_wait", "disp_pic"} /\ pictures[vi] # 0) => pic_refs[vi] = 1

\* a successful cycle is over: Display released the picture of part 0 and
\* left the pointer in the slot
C13_Witness ==
    /\ pc = "idle"
    /\ cycle = "ok"
    /\ pictures[0] # 0
    /\ pic_refs[0] = 0

\* C14: once the Closed callback of window r has returned, part r holds no
\* display in any later state, also when the callback ran during
\* vlc_vidsplit_Open before the display of part r was stored.
C14_EmptyAfterClosed ==
    \A r \in closed_done : parts[r].display = 0

\* C15: no resize is lost across the creation of a display.  Whenever the
\* semaphore of part i is free (nobody is between its wait and its post)
\* and the part holds a display, the size last given to that display, at
\* vout_display_New or by vout_display_SetSize, is the stored width and
\* height of the part; and the display Open is about to store was created
\* with the stored size.
C15_NoResizeLost ==
    /\ \A i \in Parts :
          (held[i] = {} /\ parts[i].display # 0)
          => disp_size[i] = <<parts[i].width, parts[i].height>>
    /\ pc = "open_store" => disp_size[vi] = <<parts[vi].width, parts[vi].height>>

\* a Resized callback stored a new size before Open created the display of
\* part vi: the display Open is about to store was created with that size
C15_Witness ==
    /\ pc = "open_store"
    /\ v_display # 0
    /\ parts[vi].display = 0
    /\ <<parts[vi].width, parts[vi].height>> \in ResizeInputs
    /\ disp_size[vi] \in ResizeInputs

\* contexts between a vlc_mutex_lock(&sys->lock) and the matching unlock:
\* the display thread around video_splitter_Filter, a callback around
\* video_splitter_Mouse or vlc_window_ReportKeyPress
InGlobalSection ==
    {c \in Contexts :
        \/ c = Vout /\ pc \in {"prep_filter", "prep_unlock", "prep_fail_unlock"}
        \/ c \in Parts /\ hpc[c] \in {"ms_unlock", "kb_unlock"}}

C17_DeleteOutsideGuards ==
    /\ (pc = "close_delete" /\ v_display # 0)
       => /\ \A i \in Parts : Vout \notin held[i]
          /\ sys_lock # Vout
          /\ parts[vi].display = 0
    /\ \A r \in Parts :
          (hpc[r] = "cl_delete" /\ h_display[r] # 0)
          => /\ \A i \in Parts : r \notin held[i]
             /\ sys_lock # r
             /\ parts[r].display = 0

\* a Closed callback and vlc_vidsplit_Close are each about to delete a
\* display they took out of a part
C17_Witness ==
    /\ pc = "close_delete"
    /\ v_display # 0
    /\ \E r \in Parts : hpc[r] = "cl_delete" /\ h_display[r] # 0 /\ r # vi

\* part semaphores context c is inside of
HeldBy(c) == {i \in Parts : c \in held[i]}

\* C19: the two kinds of guard are never nested, and nothing can deadlock.
\* A callback holds at most one guard: the semaphore of its own part or
\* sys->lock, never both, and it waits for neither while holding the
\* other.  The display thread owns sys->lock only while it holds no part's
\* semaphore and is not waiting for one, and it is at vlc_mutex_lock only
\* with no semaphore held.  It holds several semaphores only inside a
\* running render cycle, where Prepare has taken them in ascending order.  Whenever
\* some context is blocked at a wait or a lock, some step can be taken.
C19_NoNestingNoDeadlock ==
    /\ \A r \in Parts :
          /\ HeldBy(r) \subseteq {r}
          /\ sys_lock = r => HeldBy(r) = {}
          /\ hpc[r] \in {"ms_lock", "kb_lock", "ms_unlock", "kb_unlock"}
             => HeldBy(r) = {}
          /\ hpc[r] \in {"rs_wait", "cl_wait"} => sys_lock # r /\ HeldBy(r) = {}
    /\ sys_lock = Vout
       => /\ HeldBy(Vout) = {}
          /\ pc \in {"prep_filter", "prep_unlock", "prep_fail_unlock"}
    /\ pc = "idle" => HeldBy(Vout) = {}
    /\ pc \in {"open_wait", "close_wait"} => HeldBy(Vout) = {}
    /\ (Cardinality(HeldBy(Vout)) > 1 /\ pc # "crashed") => InCycle
    /\ pc = "prep_wait" => HeldBy(Vout) = 0 .. (vi - 1)
    /\ (\/ pc \in {"open_wait", "prep_wait", "close_wait"}
        \/ \E r \in Parts : hpc[r] \in {"rs_wait", "cl_wait", "ms_lock", "kb_lock"})
       => ENABLED Next

\* the display thread holds the semaphores of all parts inside a render
\* cycle while one callback waits for a semaphore and another one for
\* sys->lock
C19_Witness ==
    /\ pc = "disp_pic"
    /\ HeldBy(Vout) = Parts
    /\ \E r \in Parts : hpc[r] \in {"rs_wait", "cl_wait"} /\ parts[r].lock = 0
    /\ \E r \in Parts : hpc[r] \in {"ms_unlock", "kb_unlock"}

\* C20: the window of a part is not disabled and deleted while a display
\* created on it still exists or is still being deleted: when the window
\* of part i has been deleted, every display created on it has been
\* deleted, also when the Closed callback runs together with
\* vlc_vidsplit_Close.
C20_WindowOutlivesDisplay ==
    \A i \in Parts :
        parts[i].window = "deleted" => disp_deleted[i] >= disp_created[i]

\* C18: with fair guards and Display following every Prepare, a Resized or
\* Closed callback that is blocked on a semaphore held by the render cycle
\* in flight eventually gets it and returns, and a Prepare that is blocked
\* on a semaphore held by such a callback eventually gets the semaphores of
\* all parts and returns.
C18_BlockedEventuallyProceeds ==
    /\ \A r \in Parts :
          (hpc[r] \in {"rs_wait", "cl_wait"} /\ InCycle /\ Vout \in held[r])
          ~> (hpc[r] = "idle")
    /\ (pc = "prep_wait" /\ held[vi] \cap Parts # {} /\ parts[vi].lock = 0)
       ~> (pc = "disp_pic")

====
